---- MODULE Spec2Model ----
(***************************************************************************)
(* Inferno, the bootable USB creator: DiskUtility (simulated write         *)
(* pipeline driven by four single-shot timers) and InfernoWindow (the Qt   *)
(* window whose slots react to the user and to DiskUtility's signals), as  *)
(* written in inferno_full_code.cpp.                                       *)
(*                                                                         *)
(* Time is counted in units of 1000 ms, the greatest common divisor of the *)
(* four timer delays.  A modal dialog (QFileDialog, QMessageBox) runs a    *)
(* nested event loop: the slot that opened it is suspended, the main       *)
(* window takes no input, and timers keep firing.  Suspended slots are     *)
(* kept on the stack `modal`, innermost dialog last.  Closing the main     *)
(* window ends the event loop and the program; the model covers the time   *)
(* the event loop runs.                                                    *)
(*                                                                         *)
(* A file path is the sequence of its components, so that                  *)
(* QFileInfo::fileName is its last component; the text of isoPathLabel is  *)
(* a path or the one-component placeholder.                                *)
(*                                                                         *)
(* The program never looks at the devices again after the enumeration in   *)
(* its constructor.  `changed` is the world outside it: the device paths   *)
(* behind which another physical device sits now.  Spec keeps the devices  *)
(* as enumerated; SpecEnv lets them change at any time.                    *)
(***************************************************************************)
EXTENDS Integers, Sequences, FiniteSets, TLC

VARIABLES
    ui,        \* the widgets of InfernoWindow that its slots read or write
    modal,     \* stack of open modal dialogs, each with its suspended slot's locals
    sessions,  \* one record per call of startImageWrite, in call order
    timers,    \* pending QTimer::singleShot timers
    changed    \* device paths whose physical device was replaced since enumeration

vars == <<ui, modal, sessions, timers, changed>>

\* How many times startImageWrite may be called in one run of the model.
MaxSessions == 2

----------------------------------------------------------------------------
(* DiskUtility *)

\* struct DriveInfo and the two drives the simulated enumeration returns.
\* Sizes are in units of 1024 bytes (16000000000 and 32000000000 bytes), so
\* that they fit the model checker's integers.
enumerateRemovableDrives ==
    << [devicePath |-> "\\\\.\\PhysicalDrive1", driveLetter |-> "E:",
        model |-> "SanDisk Cruzer Blade (16 GB)", size |-> 15625000,
        isRemovable |-> TRUE],
       [devicePath |-> "\\\\.\\PhysicalDrive2", driveLetter |-> "F:",
        model |-> "Kingston DataTraveler (32 GB)", size |-> 31250000,
        isRemovable |-> TRUE] >>

\* The two signals of DiskUtility, as the values a connected slot receives.
progressUpdated(percentage, message) ==
    [sig |-> "progressUpdated", percentage |-> percentage, message |-> message,
     success |-> FALSE]

writeCompleted(success, errorMessage) ==
    [sig |-> "writeCompleted", percentage |-> 0, message |-> errorMessage,
     success |-> success]

\* The stage messages of the four lambdas.
msgFormatting == "Formatting drive and preparing partitions (Inferno Custom Partitioning)..."
msgWriting    == "Writing image data (Superior Asynchronous I/O in progress)..."
msgVerifying  == "Verifying image integrity (SHA-256/Digital Signatures)..."
msgComplete   == "Verification and finalization complete. Bootable USB Ready."

\* Faulty variants of singleShots, used to test the claims below.
\* The delays of the last two timers exchanged: completion comes at 5000 ms.
singleShots_CompletedEarly ==
    << [delay |-> 1, emits |-> <<progressUpdated(25, msgFormatting)>>],
       [delay |-> 3, emits |-> <<progressUpdated(75, msgWriting)>>],
       [delay |-> 6, emits |-> <<progressUpdated(90, msgVerifying)>>],
       [delay |-> 5, emits |-> <<progressUpdated(100, msgComplete),
                                 writeCompleted(TRUE, "")>>] >>

\* The percentages of the second and third timer exchanged.
singleShots_Regress ==
    << [delay |-> 1, emits |-> <<progressUpdated(25, msgFormatting)>>],
       [delay |-> 3, emits |-> <<progressUpdated(90, msgWriting)>>],
       [delay |-> 5, emits |-> <<progressUpdated(75, msgVerifying)>>],
       [delay |-> 6, emits |-> <<progressUpdated(100, msgComplete),
                                 writeCompleted(TRUE, "")>>] >>

\* No timer reports the verifying stage.
singleShots_NoVerify ==
    << [delay |-> 1, emits |-> <<progressUpdated(25, msgFormatting)>>],
       [delay |-> 3, emits |-> <<progressUpdated(75, msgWriting)>>],
       [delay |-> 5, emits |-> <<progressUpdated(100, msgComplete),
                                 writeCompleted(TRUE, "")>>] >>

\* The last lambda forgets to emit writeCompleted.
singleShots_NoCompletion ==
    << [delay |-> 1, emits |-> <<progressUpdated(25, msgFormatting)>>],
       [delay |-> 3, emits |-> <<progressUpdated(75, msgWriting)>>],
       [delay |-> 5, emits |-> <<progressUpdated(90, msgVerifying)>>],
       [delay |-> 6, emits |-> <<progressUpdated(100, msgComplete)>>] >>

\* The last lambda reports a failure.
singleShots_Fails ==
    << [delay |-> 1, emits |-> <<progressUpdated(25, msgFormatting)>>],
       [delay |-> 3, emits |-> <<progressUpdated(75, msgWriting)>>],
       [delay |-> 5, emits |-> <<progressUpdated(90, msgVerifying)>>],
       [delay |-> 6, emits |-> <<writeCompleted(FALSE, "Device removed.")>>] >>

\* The last lambda forgets to report 100 before it emits writeCompleted.
singleShots_No100 ==
    << [delay |-> 1, emits |-> <<progressUpdated(25, msgFormatting)>>],
       [delay |-> 3, emits |-> <<progressUpdated(75, msgWriting)>>],
       [delay |-> 5, emits |-> <<progressUpdated(90, msgVerifying)>>],
       [delay |-> 6, emits |-> <<writeCompleted(TRUE, "")>>] >>

\* The four QTimer::singleShot calls of startImageWrite: the delay (in units
\* of 1000 ms) and the signals the lambda emits, in order.
singleShots ==
    << [delay |-> 1, emits |-> <<progressUpdated(25, msgFormatting)>>],
       [delay |-> 3, emits |-> <<progressUpdated(75, msgWriting)>>],
       [delay |-> 5, emits |-> <<progressUpdated(90, msgVerifying)>>],
       [delay |-> 6, emits |-> <<progressUpdated(100, msgComplete),
                                 writeCompleted(TRUE, "")>>] >>

\* Faulty variant of startImageWriteEmits: the first stage is reported from
\* inside the call.
startImageWriteEmits_Sync == <<progressUpdated(25, msgFormatting)>>

\* The signals startImageWrite emits before it returns: none, every emit
\* sits in a timer's lambda.
startImageWriteEmits == <<>>

\* Faulty variant of startImageWrite: a device once written to stays locked.
startImageWrite_LockLeak(imagePath, drivePath, options) ==
    \A s \in DOMAIN sessions : sessions[s].drivePath # drivePath

\* The value startImageWrite returns.  It reads none of its arguments
\* (they are only logged) and keeps no record of earlier calls.
startImageWrite(imagePath, drivePath, options) == TRUE

----------------------------------------------------------------------------
(* The file the user can pick in the file dialog *)

\* One image of 20000000000 bytes: too large for PhysicalDrive1, small
\* enough for PhysicalDrive2.  Sizes in units of 1024 bytes, like
\* DriveInfo.size.
Images == {<<"home", "user", "huge.img">>}

ImageSize(imagePath) == IF imagePath \in Images THEN 19531250 ELSE 0

\* QFileInfo(path).fileName(): the part after the last separator.
fileNameOf(path) == IF path = <<>> THEN "" ELSE path[Len(path)]

----------------------------------------------------------------------------
(* InfernoWindow *)

NoImage == <<"No image selected.">>

\* updateDriveList, called once by the constructor: the user data of the
\* items of driveComboBox (their texts are only displayed).  Item 0 is the placeholder and carries no data,
\* so currentData().toString() is empty for it.
updateDriveList ==
    <<"">> \o [i \in 1..Len(enumerateRemovableDrives) |->
                  enumerateRemovableDrives[i].devicePath]

\* setupUI: the widgets as constructed.
setupUI ==
    [ isoPathLabel            |-> NoImage,
      currentIndex            |-> 0,
      advancedOptionsCheckBox |-> FALSE,
      persistenceCheckBox     |-> FALSE,
      multiBootCheckBox       |-> FALSE,
      win11BypassCheckBox     |-> FALSE,
      startButton             |-> FALSE,
      progressBar             |-> 0,
      statusLabel             |-> "Ready." ]

\* The slots connected to DiskUtility's signals.
handleProgressUpdate(w, percentage, message) ==
    [w EXCEPT !.progressBar = percentage, !.statusLabel = message]

\* Faulty variant of handleWriteCompletion: the bar is filled on failure too.
handleWriteCompletion_Always100(w, success, errorMessage) ==
    [w EXCEPT !.startButton = TRUE,
              !.progressBar = 100,
              !.statusLabel = IF success
                              THEN "SUCCESS: Bootable USB created successfully!"
                              ELSE "ERROR: " \o errorMessage]

\* handleWriteCompletion up to the message box it opens.
handleWriteCompletion(w, success, errorMessage) ==
    [w EXCEPT !.startButton = TRUE,
              !.progressBar = IF success THEN 100 ELSE @,
              !.statusLabel = IF success
                              THEN "SUCCESS: Bootable USB created successfully!"
                              ELSE "ERROR: " \o errorMessage]

\* A modal dialog and the locals of the slot that waits for it.
Dialog(kind, drivePath, imagePath, options) ==
    [dialog |-> kind, drivePath |-> drivePath, imagePath |-> imagePath,
     options |-> options]

PlainDialog(kind) == Dialog(kind, "", <<>>, {})

\* emit: the connections are direct, so the slot runs inside the emit.
\* st is [ui, modal]; a completion leaves its message box open.
Deliver(st, n) ==
    IF n.sig = "progressUpdated"
    THEN [st EXCEPT !.ui = handleProgressUpdate(@, n.percentage, n.message)]
    ELSE [ui    |-> handleWriteCompletion(st.ui, n.success, n.message),
          modal |-> Append(st.modal,
                           PlainDialog(IF n.success THEN "information"
                                                    ELSE "critical"))]

RECURSIVE DeliverAll(_, _)
DeliverAll(st, ns) ==
    IF ns = <<>> THEN st ELSE DeliverAll(Deliver(st, Head(ns)), Tail(ns))

\* The options map startBurningProcess gathers from the three check boxes.
GatherOptions(w) ==
    {o \in {"persistence", "multiBoot", "win11Bypass"} :
        \/ o = "persistence" /\ w.persistenceCheckBox
        \/ o = "multiBoot"   /\ w.multiBootCheckBox
        \/ o = "win11Bypass" /\ w.win11BypassCheckBox}

NoDialog == modal = <<>>
Top == modal[Len(modal)]
Pop == SubSeq(modal, 1, Len(modal) - 1)

----------------------------------------------------------------------------
(* The event loop: timers *)

\* One unit of time passes.  Expired timers are dispatched first.
Tick ==
    /\ timers # {}
    /\ \A t \in timers : t.remaining > 0
    /\ timers' = {[t EXCEPT !.remaining = @ - 1] : t \in timers}
    /\ UNCHANGED <<ui, modal, sessions, changed>>

\* An expired single-shot timer runs its lambda, in the main event loop or
\* in the nested loop of an open dialog.
FireTimer(t) ==
    /\ t \in timers
    /\ t.remaining = 0
    /\ timers' = timers \ {t}
    /\ LET emits == singleShots[t.idx].emits
           st    == DeliverAll([ui |-> ui, modal |-> modal], emits)
       IN  /\ ui' = st.ui
           /\ modal' = st.modal
           /\ sessions' = [sessions EXCEPT ![t.session].log = @ \o emits]
    /\ UNCHANGED changed

----------------------------------------------------------------------------
(* The user *)

\* Click on "Select Disk Image": selectDiskImage opens the file dialog.
selectDiskImage ==
    /\ NoDialog
    /\ modal' = Append(modal, PlainDialog("getOpenFileName"))
    /\ UNCHANGED <<ui, sessions, timers, changed>>

\* The file dialog returns fileName (empty when the user cancels it).
FileDialogReturns(fileName) ==
    /\ modal # <<>>
    /\ Top.dialog = "getOpenFileName"
    /\ modal' = Pop
    /\ ui' = IF fileName # <<>>
             THEN [ui EXCEPT !.isoPathLabel = fileName,
                             !.startButton = TRUE,
                             !.statusLabel = "Image selected: " \o fileNameOf(fileName)]
             ELSE ui
    /\ UNCHANGED <<sessions, timers, changed>>

\* The user picks item i of driveComboBox.
SelectDrive(i) ==
    /\ NoDialog
    /\ i \in 0 .. (Len(updateDriveList) - 1)
    /\ i # ui.currentIndex
    /\ ui' = [ui EXCEPT !.currentIndex = i]
    /\ UNCHANGED <<modal, sessions, timers, changed>>

\* The user toggles "Show Advanced Features": toggleAdvancedOptions.
toggleAdvancedOptions ==
    /\ NoDialog
    /\ ui' = [ui EXCEPT !.advancedOptionsCheckBox = ~@,
                        !.statusLabel = IF ~ui.advancedOptionsCheckBox
                                        THEN "Advanced Inferno features enabled."
                                        ELSE "Advanced Inferno features disabled."]
    /\ UNCHANGED <<modal, sessions, timers, changed>>

\* The user toggles one of the three option check boxes, which are visible
\* only while the advanced group is shown.
ToggleOption(box) ==
    /\ NoDialog
    /\ ui.advancedOptionsCheckBox
    /\ ui' = [ui EXCEPT ![box] = ~@]
    /\ UNCHANGED <<modal, sessions, timers, changed>>

\* Faulty variant of NoDriveSelected: the placeholder item is not refused.
NoDriveSelected_Never(w) == FALSE

\* The first check of startBurningProcess: item 0 is "Select a USB Drive...".
NoDriveSelected(w) == w.currentIndex = 0

\* Click on the start button: startBurningProcess up to its first dialog.
startBurningProcess ==
    /\ NoDialog
    /\ ui.startButton
    /\ Len(sessions) < MaxSessions
    /\ LET drivePath == updateDriveList[ui.currentIndex + 1]
           imagePath == ui.isoPathLabel
       IN  modal' = Append(modal,
               IF NoDriveSelected(ui) THEN PlainDialog("warning: drive")
               ELSE IF imagePath = NoImage THEN PlainDialog("warning: image")
               ELSE Dialog("question", drivePath, imagePath, GatherOptions(ui)))
    /\ UNCHANGED <<ui, sessions, timers, changed>>

\* Faulty variant of Proceeds: the answer is not looked at.
Proceeds_Always(reply) == TRUE

\* The check of the answer to the confirmation question: No returns.
Proceeds(reply) == reply # "No"

\* The user answers the CONFIRM DESTRUCTION question; startBurningProcess
\* resumes with the locals it read before asking.  On Yes it calls
\* startImageWrite, which schedules its four timers and returns.
QuestionReturns(reply) ==
    /\ modal # <<>>
    /\ Top.dialog = "question"
    /\ UNCHANGED changed
    /\ IF ~Proceeds(reply)
       THEN /\ modal' = Pop
            /\ ui' = [ui EXCEPT !.statusLabel = "Operation cancelled by user."]
            /\ UNCHANGED <<sessions, timers>>
       ELSE LET id      == Len(sessions) + 1
                started == startImageWrite(Top.imagePath, Top.drivePath, Top.options)
                st      == DeliverAll([ui |-> ui, modal |-> Pop], startImageWriteEmits)
            IN  /\ sessions' = Append(sessions,
                       [imagePath |-> Top.imagePath, drivePath |-> Top.drivePath,
                        started |-> started, log |-> startImageWriteEmits,
                        reply |-> reply,
                        deviceChanged |-> Top.drivePath \in changed])
                /\ timers' = timers \cup
                       {[session |-> id, idx |-> i,
                         remaining |-> singleShots[i].delay] :
                            i \in 1..Len(singleShots)}
                /\ IF started
                   THEN /\ ui' = [st.ui EXCEPT !.startButton = FALSE,
                                               !.statusLabel = "Burning process initiated...",
                                               !.progressBar = 0]
                        /\ modal' = st.modal
                   ELSE /\ ui' = st.ui
                        /\ modal' = Append(st.modal, PlainDialog("critical"))

\* The user closes a message box that only informs; its slot then returns.
MessageBoxCloses ==
    /\ modal # <<>>
    /\ Top.dialog \in {"warning: drive", "warning: image", "information", "critical"}
    /\ modal' = Pop
    /\ UNCHANGED <<ui, sessions, timers, changed>>

Init ==
    /\ ui = setupUI
    /\ modal = <<>>
    /\ sessions = <<>>
    /\ timers = {}
    /\ changed = {}

\* Outside the program: the device behind an enumerated path is unplugged
\* and another one takes its place.
DeviceChanges(drivePath) ==
    /\ drivePath \notin changed
    /\ changed' = changed \cup {drivePath}
    /\ UNCHANGED <<ui, modal, sessions, timers>>

Next ==
    \/ Tick
    \/ \E t \in timers : FireTimer(t)
    \/ selectDiskImage
    \/ \E fileName \in Images \cup {<<>>} : FileDialogReturns(fileName)
    \/ \E i \in 0..2 : SelectDrive(i)
    \/ toggleAdvancedOptions
    \/ \E box \in {"persistenceCheckBox", "multiBootCheckBox", "win11BypassCheckBox"} :
           ToggleOption(box)
    \/ startBurningProcess
    \/ \E reply \in {"Yes", "No"} : QuestionReturns(reply)
    \/ MessageBoxCloses

Spec == Init /\ [][Next]_vars

\* The program while the devices behind the enumerated paths may change.
NextEnv ==
    \/ Next
    \/ \E i \in DOMAIN enumerateRemovableDrives :
           DeviceChanges(enumerateRemovableDrives[i].devicePath)

SpecEnv == Init /\ [][NextEnv]_vars

\* The event loop keeps running: time passes and expired timers are dispatched.
FairSpec ==
    /\ Spec
    /\ WF_vars(Tick)
    /\ WF_vars(\E t \in timers : FireTimer(t))

----------------------------------------------------------------------------
(* The slot handleWriteCompletion on its own *)

MaxBoxes == 2

\* Error texts a terminal notification may carry.
ErrorMessages == {"", "Access denied.", "Device removed."}

\* What the window shows while a write runs: the bar and the status text as
\* startBurningProcess or the last progressUpdated left them.  The start
\* button is disabled by startBurningProcess and enabled again by
\* selectDiskImage, which also replaces the status text.
Phases ==
    { <<0, "Burning process initiated...">>, <<25, msgFormatting>>,
      <<75, msgWriting>>, <<90, msgVerifying>>, <<100, msgComplete>> }

SlotWindows ==
    { [setupUI EXCEPT !.isoPathLabel = imagePath, !.currentIndex = i,
                      !.startButton = b,
                      !.progressBar = ph[1], !.statusLabel = ph[2]] :
          imagePath \in Images, i \in 0..2,
          b \in BOOLEAN, ph \in {q \in Phases : q[1] > 0} }
    \cup
    { [setupUI EXCEPT !.isoPathLabel = imagePath, !.currentIndex = i,
                      !.progressBar = 0,
                      !.statusLabel = "Burning process initiated..."] :
          imagePath \in Images, i \in 0..2 }

SlotInit ==
    /\ ui \in SlotWindows
    /\ modal = <<>>
    /\ sessions = <<>>
    /\ timers = {}
    /\ changed = {}

\* A writeCompleted signal reaches the window: the connection is direct, so
\* handleWriteCompletion runs with the signal's arguments.
writeCompletedArrives(success, errorMessage) ==
    /\ Len(modal) < MaxBoxes
    /\ LET st == Deliver([ui |-> ui, modal |-> modal],
                         writeCompleted(success, errorMessage))
       IN  /\ ui' = st.ui
           /\ modal' = st.modal
    /\ UNCHANGED <<sessions, timers, changed>>

SlotNext ==
    \/ \E success \in BOOLEAN, errorMessage \in ErrorMessages :
           writeCompletedArrives(success, errorMessage)
    \/ MessageBoxCloses

SlotSpec == SlotInit /\ [][SlotNext]_vars

----------------------------------------------------------------------------
(* Sessions as seen through their notifications *)

SessionIds == DOMAIN sessions

Started(s) == sessions[s].started

Terminals(s) ==
    {i \in 1..Len(sessions[s].log) : sessions[s].log[i].sig = "writeCompleted"}

Terminated(s) == Terminals(s) # {}

\* Started and not yet terminal: Preparing, Writing or Verifying.
Active(s) == Started(s) /\ ~Terminated(s)

\* The percentages of the progress notifications among the first n
\* notifications of session s, in delivery order.
PercentagesUpTo(s, n) ==
    LET log == sessions[s].log
        RECURSIVE P(_)
        P(i) == IF i > n THEN <<>>
                ELSE IF log[i].sig = "progressUpdated"
                     THEN <<log[i].percentage>> \o P(i + 1)
                     ELSE P(i + 1)
    IN  P(1)

Percentages(s) == PercentagesUpTo(s, Len(sessions[s].log))

\* Positions in the log of session s that report the given stage message.
Reports(s, message) ==
    {i \in 1..Len(sessions[s].log) :
        /\ sessions[s].log[i].sig = "progressUpdated"
        /\ sessions[s].log[i].message = message}

PendingTimers(s) == {t \in timers : t.session = s}

DriveOf(drivePath) ==
    {i \in DOMAIN enumerateRemovableDrives :
        enumerateRemovableDrives[i].devicePath = drivePath}

----------------------------------------------------------------------------
(* Claims *)

\* C1: in every reachable state at most one session per device is active
\* (started and not yet terminal); of two overlapping write requests on one
\* device the second is rejected, so it is never recorded as started.
C1_Exclusive ==
    \A s, t \in SessionIds :
        (s # t /\ Active(s) /\ Active(t))
            => sessions[s].drivePath # sessions[t].drivePath

\* C2: in every session writeCompleted is the last notification (nothing of
\* the session is delivered after it, so it is delivered at most once), and
\* a session with no timer left has delivered it exactly once.
C2_TerminalOnceAndLast ==
    \A s \in SessionIds :
        /\ \A i \in Terminals(s) : i = Len(sessions[s].log)
        /\ PendingTimers(s) = {} => Cardinality(Terminals(s)) = 1

\* Two overlapping sessions, one terminal, the other still reporting progress.
C2_Witness ==
    \E s, t \in SessionIds :
        /\ Terminated(s) /\ Len(sessions[s].log) = 5
        /\ Active(t) /\ Len(sessions[t].log) > 0

\* C3: the percentages of a session's progress notifications are
\* non-decreasing and each lies in 0..100.
C3_ProgressMonotone ==
    \A s \in SessionIds :
        LET p == Percentages(s)
        IN  \A i \in 1..Len(p) :
                /\ p[i] \in 0..100
                /\ i > 1 => p[i - 1] <= p[i]

\* A session that has delivered all four of its progress notifications.
C3_Witness ==
    \E s \in SessionIds : Len(Percentages(s)) = 4

\* C5: no session is started for an image larger than the selected device:
\* every started session's image fits its drive.
C5_CapacityChecked ==
    \A s \in SessionIds :
        Started(s) =>
            \A i \in DriveOf(sessions[s].drivePath) :
                ImageSize(sessions[s].imagePath) <= enumerateRemovableDrives[i].size

C7_EventuallyTerminal ==
    \A s \in 1..MaxSessions :
        (s \in SessionIds /\ Started(s)) ~> (s \in SessionIds /\ Terminated(s))

\* A started session whose terminal notification has been delivered.
C7_Witness ==
    \E s \in SessionIds : Started(s) /\ Terminated(s) /\ timers = {}

\* C8: when a session reports success, the last progress notification it
\* delivered before that carries percentage 100.
C8_SuccessAfter100 ==
    \A s \in SessionIds :
        \A i \in Terminals(s) :
            sessions[s].log[i].success =>
                LET p == PercentagesUpTo(s, i - 1)
                IN  Len(p) > 0 /\ p[Len(p)] = 100

\* A session has just reported success and the progress bar shows 100.
C8_Witness ==
    \E s \in SessionIds :
        /\ \E i \in Terminals(s) : sessions[s].log[i].success
        /\ ui.progressBar = 100

\* C9: the step that delivers a session's terminal notification leaves the
\* start button enabled, and a write request on a device whose earlier
\* session has ended is accepted: startImageWrite returns true for it.
C9_Step ==
    /\ \A s \in SessionIds :
           (~Terminated(s) /\ Terminated(s)') => ui'.startButton
    /\ (/\ Len(sessions') = Len(sessions) + 1
        /\ \E s \in SessionIds :
               /\ Terminated(s)
               /\ sessions[s].drivePath = sessions'[Len(sessions')].drivePath)
           => sessions'[Len(sessions')].started

C10_RemovableOnly ==
    /\ \A i \in DOMAIN enumerateRemovableDrives :
           enumerateRemovableDrives[i].isRemovable
    /\ \A s \in SessionIds :
           \E i \in DriveOf(sessions[s].drivePath) :
               enumerateRemovableDrives[i].isRemovable

\* A session runs on a removable drive while a start request with the
\* placeholder item selected is being refused.
C10_Witness ==
    /\ \E s \in SessionIds : Started(s)
    /\ modal # <<>>
    /\ Top.dialog = "warning: drive"

\* C11: a session requested for a device that changed between the
\* enumeration and the write request never reports success (it ends in
\* Failed(DeviceChanged)).
C11_Revalidated ==
    \A s \in SessionIds :
        sessions[s].deviceChanged =>
            \A i \in Terminals(s) : ~sessions[s].log[i].success

\* C13: startImageWrite is called only from the confirmation question of
\* startBurningProcess, answered Yes, with a drive item other than the
\* placeholder selected and an image path in isoPathLabel; the question is
\* asked only in that case, and a step of startBurningProcess that starts no
\* session (a warning opens or closes, the question opens or is answered No)
\* leaves the start button's enabled state and the progress bar's value as
\* they were.
C13_StartDialogs == {"warning: drive", "warning: image", "question"}

C13_Step ==
    /\ Len(sessions') > Len(sessions) =>
           /\ modal # <<>> /\ Top.dialog = "question"
           /\ ui.currentIndex # 0
           /\ ui.isoPathLabel # NoImage
           /\ sessions'[Len(sessions')].reply = "Yes"
           /\ sessions'[Len(sessions')].drivePath = updateDriveList[ui.currentIndex + 1]
           /\ sessions'[Len(sessions')].imagePath = ui.isoPathLabel
    /\ (Len(modal') > Len(modal) /\ modal'[Len(modal')].dialog \in C13_StartDialogs) =>
           /\ (modal'[Len(modal')].dialog = "question") <=>
                  (ui.currentIndex # 0 /\ ui.isoPathLabel # NoImage)
           /\ sessions' = sessions
           /\ ui'.startButton = ui.startButton
           /\ ui'.progressBar = ui.progressBar
    /\ (/\ Len(modal') < Len(modal)
        /\ Top.dialog \in C13_StartDialogs
        /\ sessions' = sessions) =>
           /\ ui'.startButton = ui.startButton
           /\ ui'.progressBar = ui.progressBar

C13_StartGuard == [][C13_Step]_vars

\* One write was started and a later request was answered No: the start
\* button is still enabled and no second session exists.
C13_Witness ==
    /\ Len(sessions) = 1
    /\ modal = <<>>
    /\ ui.statusLabel = "Operation cancelled by user."
    /\ ui.startButton

\* C14: whenever the start button is enabled, an image has been chosen
\* (isoPathLabel no longer shows the placeholder) and the drive selection is
\* not the placeholder entry at index 0.
C14_ButtonNeedsBoth ==
    ui.startButton => (ui.isoPathLabel # NoImage /\ ui.currentIndex # 0)

\* C15: when handleWriteCompletion runs with success = false (it opens the
\* critical box), the progress bar keeps its value, the status label shows
\* the error text and the start button is enabled; when it runs with
\* success = true (it opens the information box) the bar is at 100; and a
\* step of the slot that changes the bar is one with success = true.
C15_Step ==
    /\ modal' = Append(modal, PlainDialog("critical")) =>
           /\ ui'.progressBar = ui.progressBar
           /\ ui'.startButton
           /\ ui'.statusLabel \in {"ERROR: " \o e : e \in ErrorMessages}
    /\ modal' = Append(modal, PlainDialog("information")) =>
           /\ ui'.progressBar = 100
           /\ ui'.startButton
           /\ ui'.statusLabel = "SUCCESS: Bootable USB created successfully!"
    /\ ui'.progressBar # ui.progressBar =>
           /\ ui'.progressBar = 100
           /\ modal' = Append(modal, PlainDialog("information"))

C15_FailureNotSuccess == [][C15_Step]_vars

\* A failure was handled while the bar stood below 100.
C15_Witness ==
    /\ modal # <<>>
    /\ Top.dialog = "critical"
    /\ ui.progressBar \in {25, 75, 90}
    /\ ui.startButton
    /\ ui.statusLabel = "ERROR: Device removed."

\* C16: while a session is active (started, its writeCompleted not yet
\* handled) the start button is disabled, whatever the user does in between,
\* and no step taken in that interval lowers the progress bar.
C16_Step ==
    \A s \in SessionIds :
        Active(s) =>
            /\ ~ui.startButton
            /\ ui'.progressBar >= ui.progressBar

C16_LockedWhileWriting == [][C16_Step]_vars

\* C17: every session was accepted (startImageWrite returned true), every
\* terminal notification delivered is writeCompleted(true, ""), a session
\* whose timers have all fired has delivered it, and the critical box that
\* the failure branches of startBurningProcess and handleWriteCompletion
\* open is never on screen.
C17_AlwaysSucceeds ==
    /\ \A s \in SessionIds :
           /\ Started(s)
           /\ \A i \in Terminals(s) :
                  sessions[s].log[i] = writeCompleted(TRUE, "")
           /\ PendingTimers(s) = {} => Terminated(s)
    /\ \A k \in DOMAIN modal : modal[k].dialog # "critical"

\* Two writes, to different drives, have both ended with success.
C17_Witness ==
    \E s, t \in SessionIds :
        /\ sessions[s].drivePath # sessions[t].drivePath
        /\ Terminated(s) /\ Terminated(t)
        /\ PendingTimers(s) = {} /\ PendingTimers(t) = {}
        /\ modal # <<>> /\ Top.dialog = "information"
        /\ ui.statusLabel = "SUCCESS: Bootable USB created successfully!"

\* C12: the step in which startImageWrite is called and returns true
\* delivers no notification of the new session and ends with the caller's
\* reset of the progress bar to 0; every notification of a session is
\* delivered in a later step.
C12_Step ==
    \A s \in DOMAIN sessions' :
        s \notin SessionIds =>
            /\ sessions'[s].log = <<>>
            /\ sessions'[s].started => ui'.progressBar = 0

C12_Asynchronous == [][C12_Step]_vars

\* The first timer of a started session has expired and is about to be
\* dispatched: nothing of the session was delivered yet, the bar shows the 0
\* the caller set.
C12_Witness ==
    \E s \in SessionIds :
        /\ Started(s) /\ sessions[s].log = <<>>
        /\ \E t \in PendingTimers(s) : t.remaining = 0
        /\ ui.progressBar = 0
        /\ ui.statusLabel = "Burning process initiated..."
====
